---- MODULE Spec2Model ----
(***************************************************************************)
(* A model of sklearn2pmml/__init__.py: the structure rewriter (_filter,   *)
(* _filter_steps, make_pmml_pipeline), the SelectorProxy, the conversion   *)
(* orchestrator (sklearn2pmml, _dump) and the capability resolver          *)
(* (_parse_properties, _strip_module, make_tpot_pmml_config).              *)
(* Each part has its own specification over its own group of variables;    *)
(* the other groups stay at their idle values.                             *)
(***************************************************************************)
EXTENDS Integers, Sequences, FiniteSets, TLC

VARIABLES
    \* ---- sklearn2pmml(pipeline, pmml, ..., with_repr, debug, ...) ----
    pc,            \* position of the call
    pipelineKind,  \* class of the pipeline argument
    with_repr,     \* argument with_repr
    debug,         \* argument debug
    hasMojo,       \* hasattr(estimator, "download_mojo")
    files,         \* transient files that exist on disk
    created,       \* transient files created during the call
    dumps,         \* the local list dumps
    reported,      \* paths printed by the "Preserved joblib dump file(s)" line
    launched,      \* number of converter processes started by Popen(cmd)
    probes,        \* number of "java -version" processes started
    retcode,       \* {exit status of the converter}, {} before it is known
    launchFailed,  \* Popen(cmd) raised OSError
    exc,           \* the exception in flight (or raised, once pc = "done")
    repr_,         \* pipeline.repr_ has been attached
    mojo_path,     \* estimator._mojo_path has been attached
    \* ---- SelectorProxy ----
    selector,      \* the wrapped selector: fitted state and support mask
    proxy,         \* the proxy: constructed?, support_mask_ attribute
    nfits,         \* number of fit calls made through the proxy
    sraised,       \* the last proxy operation raised
    \* ---- _parse_properties(x.readlines()) ----
    text,          \* content of the manifest entry
    parsed,        \* the call has been made
    properties,    \* the dict returned
    praised,       \* the call raised ValueError
    \* ---- make_tpot_pmml_config(config, user_classpath) ----
    classes,       \* what _supported_classes(user_classpath) returns
    config,        \* the TPOT configuration dictionary
    filtered,      \* the call has been made
    result,        \* the dictionary returned
    \* ---- _filter / make_pmml_pipeline ----
    heap,          \* the objects, by identity
    pre,           \* the heap as it was before the last call
    phase,         \* "build" while the caller constructs objects, then "called"
    arg,           \* argument of the last call
    ret,           \* its return value
    passes,        \* number of normalisations applied to the same tree
    entry,         \* which entry point was called last
    nraised        \* the last call raised ValueError

cvars == <<pc, pipelineKind, with_repr, debug, hasMojo, files, created, dumps,
           reported, launched, probes, retcode, launchFailed, exc, repr_, mojo_path>>
svars == <<selector, proxy, nfits, sraised>>
pvars == <<text, parsed, properties, praised>>
fvars == <<classes, config, filtered, result>>
nvars == <<heap, pre, phase, arg, ret, passes, entry, nraised>>
vars  == <<cvars, svars, pvars, fvars, nvars>>

Range(s) == {s[i] : i \in DOMAIN s}

-----------------------------------------------------------------------------
(* Idle values of each group, used by the specifications of the other parts *)

NoRet == {}
NoExc == [type |-> "none", msg |-> ""]

IdleC ==
    /\ pc = "idle" /\ pipelineKind = "PMMLPipeline" /\ with_repr = FALSE
    /\ debug = FALSE /\ hasMojo = FALSE /\ files = {} /\ created = {}
    /\ dumps = <<>> /\ reported = {} /\ launched = 0 /\ probes = 0
    /\ retcode = NoRet /\ launchFailed = FALSE /\ exc = NoExc
    /\ repr_ = FALSE /\ mojo_path = FALSE

IdleS ==
    /\ selector = [fitted |-> FALSE, mask |-> <<>>, unfit |-> "NotFittedError"]
    /\ proxy = [made |-> FALSE, has_mask |-> FALSE, support_mask_ |-> <<>>]
    /\ nfits = 0 /\ sraised = FALSE

IdleP == text = <<>> /\ parsed = FALSE /\ properties = <<>> /\ praised = FALSE

IdleF == classes = {} /\ config = <<>> /\ filtered = FALSE /\ result = <<>>

IdleN ==
    /\ heap = <<>> /\ pre = <<>> /\ phase = "idle" /\ arg = [none |-> TRUE]
    /\ ret = [none |-> TRUE] /\ passes = 0 /\ entry = "none" /\ nraised = FALSE

-----------------------------------------------------------------------------
(*                 sklearn2pmml(): the conversion orchestrator              *)

PipelineKinds == {"PMMLPipeline", "Pipeline", "Estimator"}
RetCodes == {-9, 0, 1}

TypeMismatch ==
    [type |-> "TypeError", msg |-> "The pipeline object is not an instance of PMMLPipeline"]
JavaNotInstalled ==
    [type |-> "RuntimeError", msg |-> "Java is not installed, or the Java executable is not on system path"]
ConversionFailed ==
    [type |-> "RuntimeError", msg |-> "The JPMML-SkLearn conversion application has failed"]
MojoError == [type |-> "Exception", msg |-> "download_mojo"]
MkstempError == [type |-> "OSError", msg |-> "mkstemp"]
PicklingError == [type |-> "PicklingError", msg |-> "joblib.dump"]

MojoFile == "estimator_mojo"
PklFile == "pipeline-XXXXXX.pkl.z"

\* isinstance(pipeline, PMMLPipeline)
IsPMMLPipeline(kind) == kind = "PMMLPipeline"

OthersC == UNCHANGED <<svars, pvars, fvars, nvars>>

InitConvert ==
    /\ pc = "start"
    /\ pipelineKind \in PipelineKinds
    /\ with_repr \in BOOLEAN
    /\ debug \in BOOLEAN
    /\ hasMojo \in BOOLEAN
    /\ files = {} /\ created = {} /\ dumps = <<>> /\ reported = {}
    /\ launched = 0 /\ probes = 0 /\ retcode = NoRet /\ launchFailed = FALSE
    /\ exc = NoExc /\ repr_ = FALSE /\ mojo_path = FALSE
    /\ IdleS /\ IdleP /\ IdleF /\ IdleN

\* lines 211-222: the diagnostic preamble; _java_version starts "java -version"
\* (when Popen does not raise) and waits for it
Preamble ==
    /\ OthersC
    /\ pc = "start"
    /\ pc' = "typecheck"
    /\ IF debug
         THEN \E started \in BOOLEAN : probes' = probes + (IF started THEN 1 ELSE 0)
         ELSE probes' = probes
    /\ UNCHANGED <<pipelineKind, with_repr, debug, hasMojo, files, created, dumps,
                   reported, launched, retcode, launchFailed, exc, repr_, mojo_path>>

\* a type check that lets any object through
TypeCheckDuck ==
    /\ OthersC
    /\ pc = "typecheck"
    /\ pc' = "repr"
    /\ UNCHANGED <<pipelineKind, with_repr, debug, hasMojo, files, created, dumps,
                   reported, launched, probes, retcode, launchFailed, exc, repr_, mojo_path>>

\* lines 223-227: the type check is outside the try block
TypeCheck ==
    /\ OthersC
    /\ pc = "typecheck"
    /\ IF ~IsPMMLPipeline(pipelineKind)
         THEN pc' = "done" /\ exc' = TypeMismatch
         ELSE pc' = "repr" /\ exc' = exc
    /\ UNCHANGED <<pipelineKind, with_repr, debug, hasMojo, files, created, dumps,
                   reported, launched, probes, retcode, launchFailed, repr_, mojo_path>>

\* lines 229-230
ReprCapture ==
    /\ OthersC
    /\ pc = "repr"
    /\ pc' = "mojo"
    /\ repr_' = (repr_ \/ with_repr)
    /\ UNCHANGED <<pipelineKind, with_repr, debug, hasMojo, files, created, dumps,
                   reported, launched, probes, retcode, launchFailed, exc, mojo_path>>

\* lines 232-235: download_mojo() writes the file and returns its path, or raises
DownloadMojo ==
    /\ OthersC
    /\ pc = "mojo"
    /\ IF hasMojo
         THEN \/ /\ files' = files \cup {MojoFile}
                 /\ created' = created \cup {MojoFile}
                 /\ dumps' = Append(dumps, MojoFile)
                 /\ mojo_path' = TRUE
                 /\ pc' = "dump" /\ exc' = exc
              \/ /\ pc' = "finally" /\ exc' = MojoError
                 /\ UNCHANGED <<files, created, dumps, mojo_path>>
         ELSE pc' = "dump" /\ UNCHANGED <<files, created, dumps, mojo_path, exc>>
    /\ UNCHANGED <<pipelineKind, with_repr, debug, hasMojo, reported, launched,
                   probes, retcode, launchFailed, repr_>>

\* lines 236-239 with _dump (178-184): mkstemp creates the file; when
\* joblib.dump raises, the finally clause closes the descriptor and the
\* exception leaves _dump before "return path", so dumps never gets the path
DumpPipeline ==
    /\ OthersC
    /\ pc = "dump"
    /\ \/ /\ pc' = "finally" /\ exc' = MkstempError
          /\ UNCHANGED <<files, created, dumps>>
       \/ /\ files' = files \cup {PklFile}
          /\ created' = created \cup {PklFile}
          /\ \/ pc' = "finally" /\ exc' = PicklingError /\ dumps' = dumps
             \/ pc' = "launch" /\ exc' = exc /\ dumps' = Append(dumps, PklFile)
    /\ UNCHANGED <<pipelineKind, with_repr, debug, hasMojo, reported, launched,
                   probes, retcode, launchFailed, repr_, mojo_path>>

\* lines 242-245: Popen(cmd) starts the converter or raises OSError
Launch ==
    /\ OthersC
    /\ pc = "launch"
    /\ \/ /\ launched' = launched + 1
          /\ pc' = "wait"
          /\ UNCHANGED <<launchFailed, exc>>
       \/ /\ launchFailed' = TRUE
          /\ exc' = JavaNotInstalled
          /\ pc' = "finally"
          /\ UNCHANGED launched
    /\ UNCHANGED <<pipelineKind, with_repr, debug, hasMojo, files, created, dumps,
                   reported, probes, retcode, repr_, mojo_path>>

\* a completion handler that ignores the exit status
WaitIgnoreStatus ==
    /\ OthersC
    /\ pc = "wait"
    /\ \E rc \in RetCodes : retcode' = {rc}
    /\ pc' = "finally"
    /\ UNCHANGED <<pipelineKind, with_repr, debug, hasMojo, files, created, dumps,
                   reported, launched, probes, launchFailed, exc, repr_, mojo_path>>

\* lines 246-258: communicate(), poll(), report the streams, raise on a
\* non-zero status
Wait ==
    /\ OthersC
    /\ pc = "wait"
    /\ \E rc \in RetCodes :
          /\ retcode' = {rc}
          /\ exc' = IF rc # 0 THEN ConversionFailed ELSE exc
    /\ pc' = "finally"
    /\ UNCHANGED <<pipelineKind, with_repr, debug, hasMojo, files, created, dumps,
                   reported, launched, probes, launchFailed, repr_, mojo_path>>

\* a finally clause that keeps the files whatever debug says
CleanupKeep ==
    /\ OthersC
    /\ pc = "finally"
    /\ pc' = "done"
    /\ reported' = reported \cup Range(dumps)
    /\ UNCHANGED <<pipelineKind, with_repr, debug, hasMojo, files, created, dumps,
                   launched, probes, retcode, launchFailed, exc, repr_, mojo_path>>

\* lines 259-264: the finally clause; the exception in flight, if any, then
\* leaves the call
Cleanup ==
    /\ OthersC
    /\ pc = "finally"
    /\ pc' = "done"
    /\ IF debug
         THEN reported' = reported \cup Range(dumps) /\ files' = files
         ELSE files' = files \ Range(dumps) /\ reported' = reported
    /\ UNCHANGED <<pipelineKind, with_repr, debug, hasMojo, created, dumps,
                   launched, probes, retcode, launchFailed, exc, repr_, mojo_path>>

NextConvert ==
    \/ Preamble
    \/ TypeCheck
    \/ ReprCapture
    \/ DownloadMojo
    \/ DumpPipeline
    \/ Launch
    \/ Wait
    \/ Cleanup

SpecConvert == InitConvert /\ [][NextConvert]_vars

Returned == pc = "done" /\ exc = NoExc
Raised == pc = "done" /\ exc # NoExc

\* C1: whatever the outcome of the call, once it has returned or raised,
\* with debug off no transient file created during the call still exists, and
\* with debug on every such file is reported and still exists.
C1_CleanupOnEveryPath ==
    pc = "done" =>
        IF debug
          THEN created \subseteq reported /\ created \subseteq files
          ELSE created \cap files = {}

\* C3: a pipeline that is not a PMMLPipeline never gets past the type check:
\* no transient file, no converter process, no repr_ and no _mojo_path, and
\* the call ends with the type-mismatch error.
C3_FailFast ==
    ~IsPMMLPipeline(pipelineKind) =>
        /\ pc \in {"start", "typecheck", "done"}
        /\ created = {} /\ files = {} /\ dumps = <<>>
        /\ launched = 0
        /\ ~repr_ /\ ~mojo_path
        /\ pc = "done" => exc = TypeMismatch

C3_Witness ==
    /\ pc = "done" /\ pipelineKind = "Pipeline" /\ exc = TypeMismatch
    /\ debug /\ with_repr /\ hasMojo /\ probes = 1

\* C7: the converter is started at most once; the call returns normally only
\* after an exit status of 0; a non-zero status ends it with the
\* conversion-failed error and a failed launch with the java-not-installed
\* error, and each of the two errors tells the caller which of the two happened.
C7_ExitStatus ==
    /\ launched <= 1
    /\ Returned => launched = 1 /\ retcode = {0}
    /\ (pc = "done" /\ retcode \notin {NoRet, {0}}) => exc = ConversionFailed
    /\ (pc = "done" /\ launchFailed) => exc = JavaNotInstalled /\ launched = 0
    /\ (pc = "done" /\ exc = ConversionFailed) =>
            ~launchFailed /\ launched = 1 /\ retcode \notin {NoRet, {0}}
    /\ (pc = "done" /\ exc = JavaNotInstalled) => launchFailed /\ retcode = NoRet

C7_Witness ==
    /\ pc = "done" /\ launched = 1 /\ retcode = {-9} /\ exc = ConversionFailed

-----------------------------------------------------------------------------
(*                             SelectorProxy                                *)

MaxCols == 2
MaxFits == 3

\* support masks: one boolean per input column of the fitting input
Masks == UNION {[1..n -> BOOLEAN] : n \in 1..MaxCols}

\* what an unfit selector's _get_support_mask() raises: check_is_fitted's
\* NotFittedError, or SelectFromModel's ValueError
UnfitErrors == {"NotFittedError", "ValueError"}

\* NotFittedError is a subclass of ValueError
IsValueError(e) == e \in {"ValueError", "NotFittedError"}

\* selector._get_support_mask()
_get_support_mask(sel) ==
    IF sel.fitted THEN [ok |-> TRUE, mask |-> sel.mask, exc |-> "none"]
                  ELSE [ok |-> FALSE, mask |-> <<>>, exc |-> sel.unfit]

\* lines 74-78
_copy_attrs(p, sel) ==
    LET r == _get_support_mask(sel) IN
    IF r.ok
      THEN [proxy |-> [p EXCEPT !.has_mask = TRUE, !.support_mask_ = r.mask],
            raised |-> FALSE]
      ELSE [proxy |-> p, raised |-> ~IsValueError(r.exc)]

OthersS == UNCHANGED <<cvars, pvars, fvars, nvars>>

InitProxy ==
    /\ selector \in
          {[fitted |-> FALSE, mask |-> <<>>, unfit |-> e] : e \in UnfitErrors}
          \cup {[fitted |-> TRUE, mask |-> m, unfit |-> e] : m \in Masks, e \in UnfitErrors}
    /\ proxy = [made |-> FALSE, has_mask |-> FALSE, support_mask_ |-> <<>>]
    /\ nfits = 0 /\ sraised = FALSE
    /\ IdleC /\ IdleP /\ IdleF /\ IdleN

\* lines 67-72: SelectorProxy(selector)
Construct ==
    /\ OthersS
    /\ ~proxy.made
    /\ LET r == _copy_attrs([proxy EXCEPT !.made = TRUE], selector) IN
          /\ proxy' = r.proxy
          /\ sraised' = r.raised
    /\ UNCHANGED <<selector, nfits>>

\* a fit that forgets to refresh the mask
ProxyFitNoCopy ==
    /\ OthersS
    /\ proxy.made /\ nfits < MaxFits
    /\ nfits' = nfits + 1
    /\ \E m \in Masks : selector' = [selector EXCEPT !.fitted = TRUE, !.mask = m]
    /\ sraised' = FALSE
    /\ UNCHANGED proxy

\* lines 80-83: proxy.fit(X, y); selector.fit either raises and leaves the
\* selector as it was, or fits it to a new support mask
ProxyFit ==
    /\ OthersS
    /\ proxy.made /\ nfits < MaxFits
    /\ nfits' = nfits + 1
    /\ \/ /\ sraised' = TRUE
          /\ UNCHANGED <<selector, proxy>>
       \/ \E m \in Masks :
            LET sel == [selector EXCEPT !.fitted = TRUE, !.mask = m]
                r == _copy_attrs(proxy, sel)
            IN  /\ selector' = sel
                /\ proxy' = r.proxy
                /\ sraised' = r.raised

NextProxy ==
    \/ Construct
    \/ ProxyFit

SpecProxy == InitProxy /\ [][NextProxy]_vars

\* C10: a proxy built around an unfit selector is built without an error and
\* has no mask; around a fitted selector it holds that selector's mask; and
\* after any number of fits through the proxy its mask is the selector's
\* current mask.
C10_MaskFollowsSelector ==
    proxy.made =>
        /\ nfits = 0 => ~sraised
        /\ ~selector.fitted => ~proxy.has_mask
        /\ selector.fitted =>
              proxy.has_mask /\ proxy.support_mask_ = selector.mask

C10_Witness ==
    /\ proxy.made /\ nfits = 2 /\ ~sraised
    /\ selector.mask = <<TRUE, FALSE>> /\ proxy.support_mask_ = <<TRUE, FALSE>>

-----------------------------------------------------------------------------
(*            _parse_properties(): the manifest of supported classes        *)

MaxTextLen == 7

\* the characters a manifest is made of: comment sign, separator, blank,
\* a letter, end of line
Chars == {"#", "=", " ", "a", "\n"}

Texts == UNION {[1..n -> Chars] : n \in 0..MaxTextLen}

\* \s of the regular expression, and what rstrip() removes
IsSpace(c) == c \in {" ", "\n"}

From(s, i) == SubSeq(s, i, Len(s))

\* x.readlines(): the lines of the entry, each with its line terminator
RECURSIVE ReadLines(_)
ReadLines(t) ==
    IF t = <<>> THEN <<>>
    ELSE IF \E i \in 1..Len(t) : t[i] = "\n"
      THEN LET i == CHOOSE i \in 1..Len(t) :
                      t[i] = "\n" /\ \A j \in 1..(i - 1) : t[j] # "\n"
           IN  <<SubSeq(t, 1, i)>> \o ReadLines(From(t, i + 1))
      ELSE <<t>>

\* line.rstrip()
RECURSIVE RStrip(_)
RStrip(l) ==
    IF l # <<>> /\ IsSpace(l[Len(l)]) THEN RStrip(SubSeq(l, 1, Len(l) - 1)) ELSE l

\* the leading \s* after a separator
RECURSIVE LStrip(_)
LStrip(l) ==
    IF l # <<>> /\ IsSpace(l[1]) THEN LStrip(From(l, 2)) ELSE l

\* line.startswith("#")
StartsWithHash(l) == l # <<>> /\ l[1] = "#"

\* re.compile("\s*=\s*").split(line): the pieces between the matches; every
\* "=" is one match, together with the blanks around it
RECURSIVE Split(_)
Split(l) ==
    IF \E i \in 1..Len(l) : l[i] = "="
      THEN LET i == CHOOSE i \in 1..Len(l) :
                      l[i] = "=" /\ \A j \in 1..(i - 1) : l[j] # "="
           IN  <<RStrip(SubSeq(l, 1, i - 1))>> \o Split(LStrip(From(l, i + 1)))
      ELSE <<l>>

\* a loop body that leaves out the lines it cannot unpack
ParseLineLenient(r, line) ==
    LET l == RStrip(line)
        parts == Split(l)
    IN  IF r.raised \/ StartsWithHash(l) \/ Len(parts) # 2 THEN r
        ELSE [r EXCEPT !.properties = (parts[1] :> parts[2]) @@ r.properties]

\* lines 270-274: one turn of the loop; "key, value = ..." raises ValueError
\* unless the split gives exactly two pieces
ParseLine(r, line) ==
    LET l == RStrip(line)
        parts == Split(l)
    IN  IF r.raised THEN r
        ELSE IF StartsWithHash(l) THEN r
        ELSE IF Len(parts) # 2 THEN [r EXCEPT !.raised = TRUE]
        ELSE [r EXCEPT !.properties = (parts[1] :> parts[2]) @@ r.properties]

\* lines 266-275
RECURSIVE ParseFrom(_, _)
ParseFrom(r, lines) ==
    IF lines = <<>> THEN r ELSE ParseFrom(ParseLine(r, Head(lines)), From(lines, 2))

_parse_properties(lines) == ParseFrom([raised |-> FALSE, properties |-> <<>>], lines)

OthersP == UNCHANGED <<cvars, svars, fvars, nvars>>

InitParse ==
    /\ text \in Texts
    /\ parsed = FALSE /\ properties = <<>> /\ praised = FALSE
    /\ IdleC /\ IdleS /\ IdleF /\ IdleN

\* line 279: _parse_properties(x.readlines())
Parse ==
    /\ OthersP
    /\ ~parsed
    /\ parsed' = TRUE
    /\ LET r == _parse_properties(ReadLines(text)) IN
          /\ praised' = r.raised
          /\ properties' = IF r.raised THEN <<>> ELSE r.properties
    /\ UNCHANGED text

NextParse == Parse

SpecParse == InitParse /\ [][NextParse]_vars

CountEq(l) == Cardinality({i \in 1..Len(l) : l[i] = "="})

\* l is a record "k = ...": k, blanks, the only "=" of the line
IsRecordWithKey(l, k) ==
    /\ CountEq(l) = 1
    /\ \E i \in 1..Len(l) :
          /\ l[i] = "="
          /\ \E j \in 0..(i - 1) :
                /\ k = SubSeq(l, 1, j)
                /\ j > 0 => ~IsSpace(l[j])
                /\ \A m \in (j + 1)..(i - 1) : IsSpace(l[m])

\* the lines that are not comments
RecordLines == {l \in Range(ReadLines(text)) : ~StartsWithHash(l)}

\* C8: when every line is a comment or a record with one "=", parsing
\* returns exactly the keys of the records; when a line that is no comment has
\* no "=", parsing raises.
C8_ManifestKeys ==
    parsed =>
        /\ (\A l \in RecordLines : CountEq(l) = 1) =>
              /\ ~praised
              /\ \A k \in DOMAIN properties : \E l \in RecordLines : IsRecordWithKey(l, k)
              /\ \A l \in RecordLines : \E k \in DOMAIN properties : IsRecordWithKey(l, k)
        /\ (\E l \in RecordLines : CountEq(l) = 0) => praised

C8_Witness ==
    /\ parsed /\ ~praised
    /\ Len(ReadLines(text)) = 3
    /\ \E l \in Range(ReadLines(text)) : StartsWithHash(l)
    /\ DOMAIN properties = {<<"a">>, <<>>}

-----------------------------------------------------------------------------
(*        make_tpot_pmml_config(): filtering a TPOT configuration           *)

MaxSegs == 2
MaxClasses == 2
MaxKeys == 2

\* A class name is held as the list of its parts, which is what
\* name.split(".") gives and ".".join(parts) turns back into the name.
Segs == {"pkg", "Foo"}
Names == UNION {[1..n -> Segs] : n \in 1..MaxSegs}

SubsetsUpTo(S, n) == {T \in SUBSET S : Cardinality(T) <= n}

\* the value the configuration holds for a key
ParamsOf(k) == <<"params", k>>

\* lines 283-288: parts.pop(-2)
_strip_module(name) ==
    IF Len(name) > 1
      THEN SubSeq(name, 1, Len(name) - 2) \o <<name[Len(name)]>>
      ELSE name

\* a filter that strips the configuration's keys instead of the classes
make_tpot_pmml_config_strip_keys(cfg, cls) ==
    [key \in {k \in DOMAIN cfg : k \in cls \/ _strip_module(k) \in cls} |-> cfg[key]]

\* lines 303-306
make_tpot_pmml_config(cfg, cls) ==
    LET tpot_keys == DOMAIN cfg
        pmml_keys == cls \cup {_strip_module(class_) : class_ \in cls}
    IN  [key \in tpot_keys \cap pmml_keys |-> cfg[key]]

OthersF == UNCHANGED <<cvars, svars, pvars, nvars>>

InitFilter ==
    /\ classes \in SubsetsUpTo(Names, MaxClasses)
    /\ \E keys \in SubsetsUpTo(Names, MaxKeys) : config = [k \in keys |-> ParamsOf(k)]
    /\ filtered = FALSE /\ result = <<>>
    /\ IdleC /\ IdleS /\ IdleP /\ IdleN

\* line 290: make_tpot_pmml_config(config, user_classpath)
FilterSupported ==
    /\ OthersF
    /\ ~filtered
    /\ filtered' = TRUE
    /\ result' = make_tpot_pmml_config(config, classes)
    /\ UNCHANGED <<classes, config>>

NextFilter == FilterSupported

SpecFilter == InitFilter /\ [][NextFilter]_vars

\* k is c without c's last part but one
IsStrippedFormOf(k, c) ==
    /\ Len(c) >= 2
    /\ Len(k) = Len(c) - 1
    /\ k[Len(k)] = c[Len(c)]
    /\ \A i \in 1..(Len(k) - 1) : k[i] = c[i]

\* C2 as claimed: a key is kept exactly when the key, or the key with one
\* part stripped, is a supported class.
C2_StripTheKey ==
    filtered =>
        \A k \in DOMAIN config :
            k \in DOMAIN result <=> (k \in classes \/ _strip_module(k) \in classes)

\* C2 as amended: a key is kept, with its value, exactly when the key is a
\* supported class or the stripped form of a supported class.
C2_StripTheClasses ==
    filtered =>
        /\ DOMAIN result \subseteq DOMAIN config
        /\ \A k \in DOMAIN config :
              /\ k \in DOMAIN result <=>
                    (k \in classes \/ \E c \in classes : IsStrippedFormOf(k, c))
              /\ k \in DOMAIN result => result[k] = config[k]

C2_Witness ==
    /\ filtered
    /\ classes = {<<"pkg", "Foo">>}
    /\ DOMAIN config = {<<"Foo">>, <<"Foo", "pkg">>}
    /\ DOMAIN result = {<<"Foo">>}

-----------------------------------------------------------------------------
(*          _filter(), _filter_steps(), make_pmml_pipeline()                *)

MaxObjs == 3
MaxSteps == 2
MaxEntries == 1
MaxPasses == 2

\* Values: a reference to an object of the heap, a Python list of values, a
\* string ("drop", "passthrough") or None.
Ref(i) == [ref |-> i]
List(es) == [list |-> es]
Str(x) == [str |-> x]
NoneV == [none |-> TRUE]

IsRef(v) == DOMAIN v = {"ref"}
IsList(v) == DOMAIN v = {"list"}

Refs(h) == {Ref(i) : i \in 1..Len(h)}

SeqsUpTo(S, n) == UNION {[1..k -> S] : k \in 1..n}

\* isinstance tests of lines 97-113, on the class of a heap object
IsDataFrameMapper(obj) == obj.kind = "DataFrameMapper"
IsColumnTransformer(obj) == obj.kind = "ColumnTransformer"
IsFeatureUnion(obj) == obj.kind = "FeatureUnion"
IsPipeline(obj) == obj.kind \in {"Pipeline", "PMMLPipeline"}

\* as if SelectorProxy were a SelectorMixin too
IsSelectorMixinOrProxy(obj) == obj.kind \in {"Selector", "SelectorProxy"}

IsSelectorMixin(obj) == obj.kind = "Selector"

\* SelectorProxy(obj): the new object is the last of the heap
SelectorProxy(h, v) ==
    [h |-> Append(h, [kind |-> "SelectorProxy", selector |-> v]),
     v |-> Ref(Len(h) + 1)]

\* a rebuilt step that keeps the step's name but drops what follows the component
RebuildStepShort(step, v) == SubSeq(step, 1, 1) \o <<v>>

\* line 118: step[:1] + (_filter(step[1]), ) + step[2:]
RebuildStep(step, v) == SubSeq(step, 1, 1) \o <<v>> \o From(step, 3)

RECURSIVE _filter(_, _), _filter_steps(_, _), _filter_list(_, _)

\* lines 117-118; the heap is threaded through the calls in list order
_filter_steps(h, steps) ==
    IF steps = <<>> THEN [h |-> h, v |-> <<>>]
    ELSE LET r == _filter(h, Head(steps)[2])
             rest == _filter_steps(r.h, From(steps, 2))
         IN  [h |-> rest.h, v |-> <<RebuildStep(Head(steps), r.v)>> \o rest.v]

\* line 114
_filter_list(h, es) ==
    IF es = <<>> THEN [h |-> h, v |-> <<>>]
    ELSE LET r == _filter(h, Head(es))
             rest == _filter_list(r.h, From(es, 2))
         IN  [h |-> rest.h, v |-> <<r.v>> \o rest.v]

\* lines 96-115
_filter(h, v) ==
    IF IsRef(v) THEN
        LET i == v.ref
            obj == h[i]
        IN  IF IsDataFrameMapper(obj) THEN
                LET r1 == _filter_steps(h, obj.features)
                    h1 == [r1.h EXCEPT ![i].features = r1.v]
                IN  IF h1[i].has_built = "list"
                      THEN LET r2 == _filter_steps(h1, h1[i].built_features)
                           IN  [h |-> [r2.h EXCEPT ![i].built_features = r2.v], v |-> v]
                      ELSE [h |-> h1, v |-> v]
            ELSE IF IsColumnTransformer(obj) THEN
                LET r1 == _filter_steps(h, obj.transformers)
                    h1 == [r1.h EXCEPT ![i].transformers = r1.v]
                    r2 == _filter(h1, h1[i].remainder)
                    h2 == [r2.h EXCEPT ![i].remainder = r2.v]
                IN  IF h2[i].fitted
                      THEN LET r3 == _filter_steps(h2, h2[i].transformers_)
                           IN  [h |-> [r3.h EXCEPT ![i].transformers_ = r3.v], v |-> v]
                      ELSE [h |-> h2, v |-> v]
            ELSE IF IsFeatureUnion(obj) THEN
                LET r1 == _filter_steps(h, obj.transformer_list)
                IN  [h |-> [r1.h EXCEPT ![i].transformer_list = r1.v], v |-> v]
            ELSE IF IsPipeline(obj) THEN
                LET r1 == _filter_steps(h, obj.steps)
                IN  [h |-> [r1.h EXCEPT ![i].steps = r1.v], v |-> v]
            ELSE IF IsSelectorMixin(obj) THEN SelectorProxy(h, v)
            ELSE [h |-> h, v |-> v]
    ELSE IF IsList(v) THEN
        LET r == _filter_list(h, v.list) IN [h |-> r.h, v |-> List(r.v)]
    ELSE [h |-> h, v |-> v]

\* a _get_steps that names the wrapped estimator's step differently and
\* wraps what is no estimator too
_get_steps_lenient(h, obj) ==
    IF IsRef(obj) /\ IsPipeline(h[obj.ref])
      THEN [raised |-> FALSE, steps |-> h[obj.ref].steps]
      ELSE [raised |-> FALSE, steps |-> <<<<"step", obj>>>>]

\* lines 88-94: every object of the heap is a BaseEstimator; a string, a list
\* or None is not
_get_steps(h, obj) ==
    IF IsRef(obj) /\ IsPipeline(h[obj.ref])
      THEN [raised |-> FALSE, steps |-> h[obj.ref].steps]
    ELSE IF IsRef(obj)
      THEN [raised |-> FALSE, steps |-> <<<<"estimator", obj>>>>]
      ELSE [raised |-> TRUE, steps |-> <<>>]

\* PMMLPipeline(steps): a Pipeline subtype that holds the steps it is given
PMMLPipeline(steps) ==
    [kind |-> "PMMLPipeline", steps |-> steps, active_fields |-> {}, target_fields |-> {}]

\* a make_pmml_pipeline that stores the rewritten steps in the caller's Pipeline too
make_pmml_pipeline_in_place(h, obj, active_fields, target_fields) ==
    LET g == _get_steps(h, obj)
        r == _filter_steps(h, g.steps)
        h1 == IF IsRef(obj) /\ IsPipeline(h[obj.ref])
                THEN [r.h EXCEPT ![obj.ref].steps = r.v] ELSE r.h
        pipeline == [PMMLPipeline(r.v) EXCEPT !.active_fields = active_fields,
                                                !.target_fields = target_fields]
    IN  IF g.raised THEN [raised |-> TRUE, h |-> h, v |-> NoneV]
        ELSE [raised |-> FALSE, h |-> Append(h1, pipeline), v |-> Ref(Len(h1) + 1)]

\* lines 135-141; the fields are given as {} (None) or {the list of names}
make_pmml_pipeline(h, obj, active_fields, target_fields) ==
    LET g == _get_steps(h, obj)
        r == _filter_steps(h, g.steps)
        pipeline == [PMMLPipeline(r.v) EXCEPT !.active_fields = active_fields,
                                                !.target_fields = target_fields]
    IN  IF g.raised THEN [raised |-> TRUE, h |-> h, v |-> NoneV]
        ELSE [raised |-> FALSE, h |-> Append(r.h, pipeline), v |-> Ref(Len(r.h) + 1)]

\* The shapes of the child lists the caller builds: (name, component) for
\* Pipeline and FeatureUnion, (name, component, columns) for ColumnTransformer,
\* (columns, component, options) for DataFrameMapper.
StepName(i) == <<"step", i>>
Columns(i) == <<"columns", i>>
Options(i) == <<"options", i>>
NamedSteps(vals) == [i \in 1..Len(vals) |-> <<StepName(i), vals[i]>>]
ColumnSteps(vals) == [i \in 1..Len(vals) |-> <<StepName(i), vals[i], Columns(i)>>]
FeatureDefs(vals) == [i \in 1..Len(vals) |-> <<Columns(i), vals[i], Options(i)>>]

\* what a ColumnTransformer and a DataFrameMapper may hold in place of a component
ColumnVals(h) == Refs(h) \cup {Str("passthrough")}
FeatureVals(h) == Refs(h) \cup {NoneV} \cup {List(es) : es \in SeqsUpTo(Refs(h), MaxEntries)}

FieldArgs == {{}, {<<"x1", "x2">>}}
NonEstimators == {Str("passthrough"), List(<<>>)}

OthersN == UNCHANGED <<cvars, svars, pvars, fvars>>

InitNormalize ==
    /\ heap = <<>> /\ pre = <<>> /\ phase = "build" /\ arg = NoneV /\ ret = NoneV
    /\ passes = 0 /\ entry = "none" /\ nraised = FALSE
    /\ IdleC /\ IdleS /\ IdleP /\ IdleF

CanBuild == phase = "build" /\ Len(heap) < MaxObjs

Build(obj) ==
    /\ heap' = Append(heap, obj)
    /\ UNCHANGED <<pre, phase, arg, ret, passes, entry, nraised>>

\* the caller creates a plain estimator or a selector
NewLeaf ==
    /\ OthersN /\ CanBuild
    /\ \E kind \in {"Estimator", "Selector"} : Build([kind |-> kind])

\* Pipeline(steps)
NewPipeline ==
    /\ OthersN /\ CanBuild
    /\ \E vals \in SeqsUpTo(Refs(heap), MaxSteps) :
          Build([kind |-> "Pipeline", steps |-> NamedSteps(vals)])

\* FeatureUnion(transformer_list)
NewFeatureUnion ==
    /\ OthersN /\ CanBuild
    /\ \E vals \in SeqsUpTo(Refs(heap), MaxSteps) :
          Build([kind |-> "FeatureUnion", transformer_list |-> NamedSteps(vals)])

\* ColumnTransformer(transformers, remainder), fitted (it has transformers_) or not
NewColumnTransformer ==
    /\ OthersN /\ CanBuild
    /\ \E vals \in SeqsUpTo(ColumnVals(heap), MaxEntries),
          rem \in Refs(heap) \cup {Str("drop")},
          fitted \in BOOLEAN :
          \E fvals \in IF fitted THEN SeqsUpTo(ColumnVals(heap), MaxEntries) ELSE {<<>>} :
             Build([kind |-> "ColumnTransformer", transformers |-> ColumnSteps(vals),
                    remainder |-> rem, fitted |-> fitted,
                    transformers_ |-> ColumnSteps(fvals)])

\* DataFrameMapper(features); built_features is missing, None or a list
NewDataFrameMapper ==
    /\ OthersN /\ CanBuild
    /\ \E vals \in SeqsUpTo(FeatureVals(heap), MaxEntries),
          has_built \in {"absent", "none", "list"} :
          \E bvals \in IF has_built = "list"
                         THEN SeqsUpTo(Refs(heap) \cup {NoneV}, MaxEntries) ELSE {<<>>} :
             Build([kind |-> "DataFrameMapper", features |-> FeatureDefs(vals),
                    has_built |-> has_built, built_features |-> FeatureDefs(bvals)])

\* _filter(obj) on an object of the caller
CallFilter ==
    /\ OthersN
    /\ phase = "build"
    /\ \E v \in Refs(heap) :
          LET r == _filter(heap, v) IN
             /\ heap' = r.h /\ ret' = r.v /\ arg' = v
    /\ pre' = heap /\ phase' = "called" /\ passes' = 1 /\ entry' = "filter"
    /\ nraised' = FALSE

\* make_pmml_pipeline(obj, active_fields, target_fields)
CallMake ==
    /\ OthersN
    /\ phase = "build"
    /\ \E v \in Refs(heap) \cup NonEstimators, fields \in FieldArgs :
          LET r == make_pmml_pipeline(heap, v, fields, fields) IN
             /\ heap' = r.h /\ ret' = r.v /\ arg' = v /\ nraised' = r.raised
    /\ pre' = heap /\ phase' = "called" /\ passes' = 1 /\ entry' = "make"

\* the same entry point again, on what the last call returned (the fields
\* left at their default, None)
CallAgain ==
    /\ OthersN
    /\ phase = "called" /\ ~nraised /\ passes < MaxPasses
    /\ \/ /\ entry = "filter"
          /\ LET r == _filter(heap, ret) IN
                /\ heap' = r.h /\ ret' = r.v /\ nraised' = FALSE
       \/ /\ entry = "make"
          /\ LET r == make_pmml_pipeline(heap, ret, {}, {}) IN
                /\ heap' = r.h /\ ret' = r.v /\ nraised' = r.raised
    /\ arg' = ret /\ pre' = heap /\ passes' = passes + 1
    /\ UNCHANGED <<phase, entry>>

NextNormalize ==
    \/ NewLeaf
    \/ NewPipeline
    \/ NewFeatureUnion
    \/ NewColumnTransformer
    \/ NewDataFrameMapper
    \/ CallFilter
    \/ CallMake
    \/ CallAgain

SpecNormalize == InitNormalize /\ [][NextNormalize]_vars

-----------------------------------------------------------------------------
(*                 Properties of the structure rewriter                     *)

StepVals(steps) == {steps[i][2] : i \in DOMAIN steps}
ValsOf(steps) == [i \in DOMAIN steps |-> steps[i][2]]

\* the values a value holds in its child lists (a proxy is a leaf)
Kids(h, v) ==
    IF IsRef(v) THEN
        LET obj == h[v.ref] IN
        IF IsDataFrameMapper(obj)
          THEN StepVals(obj.features)
               \cup (IF obj.has_built = "list" THEN StepVals(obj.built_features) ELSE {})
        ELSE IF IsColumnTransformer(obj)
          THEN StepVals(obj.transformers) \cup {obj.remainder}
               \cup (IF obj.fitted THEN StepVals(obj.transformers_) ELSE {})
        ELSE IF IsFeatureUnion(obj) THEN StepVals(obj.transformer_list)
        ELSE IF IsPipeline(obj) THEN StepVals(obj.steps)
        ELSE {}
    ELSE IF IsList(v) THEN Range(v.list)
    ELSE {}

RECURSIVE Reach(_, _)
Reach(h, v) == {v} \cup UNION {Reach(h, k) : k \in Kids(h, v)}

IsSelectorVal(h, v) == IsRef(v) /\ h[v.ref].kind = "Selector"
IsProxyOf(h, v, sel) ==
    IsRef(v) /\ h[v.ref].kind = "SelectorProxy" /\ h[v.ref].selector = sel

\* the object holds a selector in one of its child lists, or in a Python
\* list that is an element of one
HoldsSelector(h, i) ==
    \E k \in Kids(h, Ref(i)) :
        IsSelectorVal(h, k) \/ (IsList(k) /\ \E e \in Range(k.list) : IsSelectorVal(h, e))

RECURSIVE Rewritten(_, _, _, _)
\* v1 in heap h1 is v0 of heap h0 with every selector replaced by a proxy of it
Rewritten(h0, v0, h1, v1) ==
    LET StepsRewritten(s0, s1) ==
            /\ Len(s0) = Len(s1)
            /\ \A i \in 1..Len(s0) :
                  /\ Len(s1[i]) = Len(s0[i])
                  /\ s1[i][1] = s0[i][1]
                  /\ From(s1[i], 3) = From(s0[i], 3)
                  /\ Rewritten(h0, s0[i][2], h1, s1[i][2])
    IN
    IF IsSelectorVal(h0, v0) THEN IsProxyOf(h1, v1, v0)
    ELSE IF IsRef(v0) THEN
        /\ v1 = v0
        /\ LET a == h0[v0.ref]
               b == h1[v0.ref]
           IN  /\ b.kind = a.kind
               /\ IF IsDataFrameMapper(a)
                    THEN /\ StepsRewritten(a.features, b.features)
                         /\ b.has_built = a.has_built
                         /\ IF a.has_built = "list"
                              THEN StepsRewritten(a.built_features, b.built_features)
                              ELSE b.built_features = a.built_features
                  ELSE IF IsColumnTransformer(a)
                    THEN /\ StepsRewritten(a.transformers, b.transformers)
                         /\ Rewritten(h0, a.remainder, h1, b.remainder)
                         /\ b.fitted = a.fitted
                         /\ IF a.fitted
                              THEN StepsRewritten(a.transformers_, b.transformers_)
                              ELSE b.transformers_ = a.transformers_
                  ELSE IF IsFeatureUnion(a)
                    THEN StepsRewritten(a.transformer_list, b.transformer_list)
                  ELSE IF IsPipeline(a) THEN StepsRewritten(a.steps, b.steps)
                  ELSE b = a
    ELSE IF IsList(v0) THEN
        /\ IsList(v1)
        /\ Len(v1.list) = Len(v0.list)
        /\ \A i \in 1..Len(v0.list) : Rewritten(h0, v0.list[i], h1, v1.list[i])
    ELSE v1 = v0

\* C4: the result of _filter / make_pmml_pipeline holds no bare selector in
\* any child list, at any depth: each selector has become a proxy of that
\* selector, and each step has kept its name, its place and its other fields.
C4_EverySelectorWrapped ==
    (phase = "called" /\ ~nraised) =>
        /\ \A w \in Reach(heap, ret) : ~IsSelectorVal(heap, w)
        /\ IF entry = "filter"
             THEN Rewritten(pre, arg, heap, ret)
             ELSE /\ IsRef(ret)
                  /\ Rewritten(pre, List(ValsOf(_get_steps(pre, arg).steps)),
                               heap, List(ValsOf(heap[ret.ref].steps)))
                  /\ [i \in DOMAIN heap[ret.ref].steps |-> heap[ret.ref].steps[i][1]]
                       = [i \in DOMAIN _get_steps(pre, arg).steps |-> _get_steps(pre, arg).steps[i][1]]

C4_Witness ==
    /\ phase = "called" /\ entry = "filter" /\ passes = 1
    /\ IsRef(arg) /\ IsPipeline(pre[arg.ref]) /\ Len(pre[arg.ref].steps) = 2
    /\ \E k \in Kids(pre, arg) :
          /\ IsRef(k) /\ IsDataFrameMapper(pre[k.ref])
          /\ pre[k.ref].has_built = "list"
          /\ \A x \in Kids(pre, k) : IsSelectorVal(pre, x)
          /\ Cardinality({x \in Kids(heap, k) : IsRef(x) /\ heap[x.ref].kind = "SelectorProxy"}) = 2

\* the values the last call walked through: for make_pmml_pipeline on a
\* Pipeline, its steps' components and what they hold, not the Pipeline itself
Visited ==
    IF nraised THEN {}
    ELSE IF entry = "make" /\ IsRef(arg) /\ IsPipeline(pre[arg.ref])
      THEN UNION {Reach(pre, k) : k \in Kids(pre, arg)}
      ELSE Reach(pre, arg)

\* C5 as claimed: the caller's objects are after the call what they were
\* before it.
C5_InputUntouched ==
    phase = "called" => SubSeq(heap, 1, Len(pre)) = pre

\* C5 as amended: the call rewrites the caller's objects in place. An object
\* of the caller differs after the call exactly when the call walked through
\* it and it held a selector in a child list; what it then holds is the
\* rewritten list. _filter returns the composite it was given, and
\* make_pmml_pipeline leaves the step list of the Pipeline it was given alone.
C5_RewrittenInPlace ==
    phase = "called" =>
        /\ Len(heap) >= Len(pre)
        /\ \A i \in 1..Len(pre) :
              /\ heap[i] # pre[i] <=> (Ref(i) \in Visited /\ HoldsSelector(pre, i))
              /\ Rewritten(pre, Ref(i), heap, Ref(i)) \/ IsSelectorVal(pre, Ref(i))
                    \/ Ref(i) \notin Visited
        /\ (entry = "filter" /\ ~IsSelectorVal(pre, arg)) => ret = arg
        /\ (entry = "make" /\ IsRef(arg) /\ IsPipeline(pre[arg.ref])) =>
              heap[arg.ref] = pre[arg.ref]

C5_Witness ==
    /\ phase = "called" /\ entry = "make" /\ passes = 1
    /\ IsRef(arg) /\ IsPipeline(pre[arg.ref]) /\ HoldsSelector(pre, arg.ref)
    /\ heap[arg.ref] = pre[arg.ref]
    /\ \E i \in 1..Len(pre) : IsFeatureUnion(pre[i]) /\ heap[i] # pre[i]

Proxies(h) == {i \in 1..Len(h) : h[i].kind = "SelectorProxy"}

\* C6: normalising what a normalisation returned makes no new proxy and
\* wraps no proxy: the proxies are the same before and after, each around a
\* selector.
C6_NoNewProxies ==
    (phase = "called" /\ passes >= 2 /\ ~nraised) =>
        /\ Proxies(heap) = Proxies(pre)
        /\ \A p \in Proxies(heap) : heap[p] = pre[p] /\ IsSelectorVal(heap, heap[p].selector)
        /\ entry = "filter" => heap = pre /\ ret = arg

C6_Witness ==
    /\ phase = "called" /\ passes = 2 /\ entry = "filter"
    /\ Cardinality(Proxies(heap)) >= 2
    /\ \E p \in Proxies(heap) : Ref(p) \in Reach(heap, ret)

\* C9: make_pmml_pipeline on a plain estimator returns a PMMLPipeline of one
\* step, ("estimator", that estimator); on a Pipeline, a PMMLPipeline with the
\* same step names in the same order; both pass the type check of
\* sklearn2pmml; on what is neither it raises and returns nothing.
C9_CanonicalPipeline ==
    (phase = "called" /\ entry = "make" /\ passes = 1) =>
        /\ (IsRef(arg) /\ pre[arg.ref].kind = "Estimator") =>
              /\ ~nraised /\ IsRef(ret)
              /\ IsPMMLPipeline(heap[ret.ref].kind)
              /\ heap[ret.ref].steps = <<<<"estimator", arg>>>>
        /\ (IsRef(arg) /\ IsPipeline(pre[arg.ref])) =>
              /\ ~nraised /\ IsRef(ret)
              /\ IsPMMLPipeline(heap[ret.ref].kind)
              /\ Len(heap[ret.ref].steps) = Len(pre[arg.ref].steps)
              /\ \A i \in DOMAIN pre[arg.ref].steps :
                    heap[ret.ref].steps[i][1] = pre[arg.ref].steps[i][1]
        /\ ~IsRef(arg) => nraised /\ ret = NoneV /\ heap = pre

C9_Witness ==
    /\ phase = "called" /\ entry = "make" /\ passes = 1 /\ ~nraised
    /\ IsRef(arg) /\ pre[arg.ref].kind = "Estimator"
    /\ heap[ret.ref].steps = <<<<"estimator", arg>>>>
    /\ heap[ret.ref].active_fields # {}

====
